---- MODULE Spec2Model ----
(***************************************************************************)
(* Model of the RHT03 temperature/humidity sensor driver (therm.c).        *)
(* The program is main's endless loop around read_therm, which wakes the  *)
(* sensor and samples pulses with next_bit.  The sensor line is the       *)
(* environment: a waveform of high pulses separated by low gaps.          *)
(***************************************************************************)
EXTENDS Integers, Naturals, Sequences, FiniteSets, TLC

\* ---------------------------------------------------------------- bounds
\* Number of read_therm transactions main's loop is followed for.
MaxTxn == 2
\* Length (in polls of the high-phase loop) of an ordinary short / long pulse.
ShortLen == 3
LongLen == 31

\* ------------------------------------------------------ program constants
\* #define BIT_TRANSITIONS 40 + 2 : the macro is the token sequence 40 + 2.
BIT_TRANSITIONS == 40 + 2
LONG_PULSE_LENGTH == 28
\* uint8_t tries_b[43]
TRIES_B_LEN == 43
\* uint8_t bits[5]
NBUCKETS == 5
\* the literal of  if(tries++ == 255)
TRIES_CAP == 255
\* widths of uint8_t and of AVR's int
U8 == 256
U16 == 65536

\* A pulse of this length never ends: the line stays high forever.
Forever == 0 - 1

\* ------------------------------------------------------------- arithmetic
RECURSIVE BitOr(_, _)
BitOr(a, b) ==
    IF a = 0 THEN b
    ELSE IF b = 0 THEN a
    ELSE (IF (a % 2 = 1) \/ (b % 2 = 1) THEN 1 ELSE 0) + 2 * BitOr(a \div 2, b \div 2)

\* (x << 1) | s stored into a uint8_t
ShiftInAlt(x, s) == BitOr(x \div 2, s * 128) % U8
ShiftIn(x, s) == BitOr(x * 2, s) % U8

\* counter >> 3
BucketOf(c) == c \div 8

\* (tries > LONG_PULSE_LENGTH) ? 1 : 0
ClassifyAlt(t) == IF t >= LONG_PULSE_LENGTH THEN 1 ELSE 0
Classify(t) == IF t > LONG_PULSE_LENGTH THEN 1 ELSE 0

\* tries++ on a uint8_t
IncTries(t) == (t + 1) % U8

\* bits[0] + bits[1] + bits[2] + bits[3] == bits[4], operands promoted to int
ChecksumOf(b) == IF b[0] + b[1] + b[2] + b[3] = b[4] THEN 1 ELSE 0

\* (bits[hi] << 8) | bits[lo] stored into a uint16_t
WordAlt(hi, lo) == BitOr(hi * 256, lo) % U8
Word(hi, lo) == BitOr(hi * 256, lo) % U16

\* --------------------------------------------------------- the sensor line
\* Bits of a byte, most significant first (the order the sensor sends them).
ByteBits(v) == [i \in 1..8 |-> (v \div (2 ^ (8 - i))) % 2]

FrameBits(bytes) ==
    ByteBits(bytes[1]) \o ByteBits(bytes[2]) \o ByteBits(bytes[3])
        \o ByteBits(bytes[4]) \o ByteBits(bytes[5])

\* The waveform of one sensor answer: two preamble pulses, then one pulse
\* per data bit (short for 0, long for 1), then the tail.
Pulses(pre, bytes, short, long, tail) ==
    pre \o [i \in 1..40 |-> IF FrameBits(bytes)[i] = 1 THEN long ELSE short] \o tail

IdleHigh == <<Forever>>

FrameA == Pulses(<<ShortLen, LongLen>>, <<1, 144, 0, 200, 89>>, ShortLen, LongLen, IdleHigh)
FrameB == Pulses(<<LongLen, LongLen>>, <<2, 140, 1, 1, 143>>,
                 LONG_PULSE_LENGTH, LONG_PULSE_LENGTH + 1, IdleHigh)
FrameC == Pulses(<<TRIES_CAP, TRIES_CAP + 1>>, <<18, 52, 0, 15, 85>>, 0, LongLen, IdleHigh)
FrameE == Pulses(<<ShortLen, ShortLen>>, <<1, 144, 0, 200, 89>>, ShortLen, LongLen, <<>>)
FrameF == <<LongLen, TRIES_CAP + LongLen + 2, ShortLen>>
FrameG == <<>>
FrameH == Pulses(<<TRIES_CAP, TRIES_CAP + LongLen + 2>>, <<18, 52, 0, 15, 85>>, 0, LongLen, IdleHigh)

Frames == {FrameA, FrameB, FrameC, FrameE, FrameF, FrameG, FrameH}

\* What the out-of-bounds element bits[5] is in the build's stack frame.
Bits5Layouts == {"none", "state", "bucket", "counterLo", "counterHi"}
\* What the out-of-bounds element tries_b[43] is among the globals.
Tries43Layouts == {"none", "try_count"}

NoResult == [temperature |-> 0, humidity |-> 0, checksum |-> 0]

VARIABLES
    pc,         \* position of the program
    ret,        \* where the running next_bit returns to
    txn,        \* read_therm calls that have returned
    ddr,        \* DDRB bit THERM: "in" or "out"
    port,       \* PORTB bit THERM
    ints,       \* global interrupt flag
    wave,       \* pulses the sensor still has to send
    cur,        \* polls for which the line still reads high
    bits, state, bucket, counter,   \* locals of read_therm
    tries,      \* local of next_bit
    result,     \* main's RHTresult
    tries_b, try_count,             \* DEBUG globals
    bits5, tries43,                 \* layout of the build
    nbCalls,    \* next_bit calls made by the running read_therm
    filled,     \* how many bits each bucket has received
    seen,       \* the bits those calls produced, in order
    hiPolls,    \* polls of the running high-phase loop that read high
    polls,      \* the high polls of each sample of the running read_therm
    sent,       \* the waveform the sensor answered the running read_therm with
    prevPolls, prevSent, prevResult \* polls, sent and result when read_therm last returned

vars == <<pc, ret, txn, ddr, port, ints, wave, cur, bits, state, bucket, counter,
          tries, result, tries_b, try_count, bits5, tries43, nbCalls, filled, seen, hiPolls,
          polls, sent, prevPolls, prevSent, prevResult>>

hw == <<ddr, port, ints>>
line == <<wave, cur>>
locals == <<bits, state, bucket, counter>>
dbg == <<tries_b, try_count>>
build == <<bits5, tries43>>
ghost == <<nbCalls, filled, seen, hiPolls>>
hist == <<polls, sent, prevPolls, prevSent, prevResult>>

ZeroBits == [k \in 0..(NBUCKETS - 1) |-> 0]

Init ==
    /\ pc = "main_loop"
    /\ ret = "none"
    /\ txn = 0
    /\ ddr = "in"
    /\ port = 0
    /\ ints = FALSE
    /\ wave = <<>>
    /\ cur = 0
    /\ bits = ZeroBits
    /\ state = 0
    /\ bucket = 0
    /\ counter = 0
    /\ tries = 0
    /\ result = NoResult
    /\ tries_b = [i \in 0..(TRIES_B_LEN - 1) |-> 0]
    /\ try_count = 0
    /\ bits5 \in Bits5Layouts
    /\ tries43 \in Tries43Layouts
    /\ nbCalls = 0
    /\ filled = ZeroBits
    /\ seen = <<>>
    /\ hiPolls = 0
    /\ polls = <<>>
    /\ sent = <<>>
    /\ prevPolls = <<>>
    /\ prevSent = <<>>
    /\ prevResult = NoResult

\* ------------------------------------------------------------------- main
\* while(1) { blink(3); _delay_ms(2000); read_therm(&result); }
MainLoop ==
    /\ pc = "main_loop"
    /\ txn < MaxTxn
    /\ pc' = "rt_out"
    /\ nbCalls' = 0
    /\ filled' = ZeroBits
    /\ seen' = <<>>
    /\ polls' = <<>>
    /\ sent' = <<>>
    /\ UNCHANGED <<ret, txn, hw, line, locals, tries, result, dbg, build, hiPolls,
                   prevPolls, prevSent, prevResult>>

\* ------------------------------------------------------------- read_therm
\* DDRB |= (1 << THERM)
SetOutput ==
    /\ pc = "rt_out"
    /\ ddr' = "out"
    /\ pc' = "rt_low"
    /\ UNCHANGED <<ret, txn, port, ints, line, locals, tries, result, dbg, build, ghost, hist>>

\* THERM_PORT &= ~(1 << THERM)
PinLow ==
    /\ pc = "rt_low"
    /\ port' = 0
    /\ pc' = "rt_delay"
    /\ UNCHANGED <<ret, txn, ddr, ints, line, locals, tries, result, dbg, build, ghost, hist>>

\* _delay_ms(5)
Delay ==
    /\ pc = "rt_delay"
    /\ pc' = "rt_cli"
    /\ UNCHANGED <<ret, txn, hw, line, locals, tries, result, dbg, build, ghost, hist>>

CliAlt ==
    /\ pc = "rt_cli"
    /\ pc' = "rt_high"
    /\ UNCHANGED <<ret, txn, hw, line, locals, tries, result, dbg, build, ghost, hist>>

\* cli()
Cli ==
    /\ pc = "rt_cli"
    /\ ints' = FALSE
    /\ pc' = "rt_high"
    /\ UNCHANGED <<ret, txn, ddr, port, line, locals, tries, result, dbg, build, ghost, hist>>

\* THERM_PORT |= (1 << THERM)
PinHigh ==
    /\ pc = "rt_high"
    /\ port' = 1
    /\ pc' = "rt_in"
    /\ UNCHANGED <<ret, txn, ddr, ints, line, locals, tries, result, dbg, build, ghost, hist>>

SetInputAlt ==
    /\ pc = "rt_in"
    /\ \E f \in Frames : wave' = f /\ sent' = f
    /\ cur' = 0
    /\ pc' = "rt_init"
    /\ UNCHANGED <<ret, txn, hw, locals, tries, result, dbg, build, ghost,
                   polls, prevPolls, prevSent, prevResult>>

\* DDRB &= ~(1 << THERM); from here the sensor owns the line and answers
\* with one of the waveforms.
SetInput ==
    /\ pc = "rt_in"
    /\ ddr' = "in"
    /\ \E f \in Frames : wave' = f /\ sent' = f
    /\ cur' = 0
    /\ pc' = "rt_init"
    /\ UNCHANGED <<ret, txn, port, ints, locals, tries, result, dbg, build, ghost,
                   polls, prevPolls, prevSent, prevResult>>

InitLocalsAlt ==
    /\ pc = "rt_init"
    /\ bits' = ZeroBits
    /\ state' = 0
    /\ result' = NoResult
    /\ pc' = "rt_pre1"
    /\ UNCHANGED <<ret, txn, hw, line, bucket, counter, tries, dbg, build, ghost, hist>>

\* uint8_t bits[5] = {0,0,0,0,0}; uint8_t state = 0; uint8_t bucket;
InitLocals ==
    /\ pc = "rt_init"
    /\ bits' = ZeroBits
    /\ state' = 0
    /\ pc' = "rt_pre1"
    /\ UNCHANGED <<ret, txn, hw, line, bucket, counter, tries, result, dbg, build, ghost, hist>>

\* next_bit(&state): the two preamble calls and the call of the loop body
CallNextBit(from, to) ==
    /\ pc = from
    /\ pc' = "nb_low"
    /\ ret' = to
    /\ tries' = 0
    /\ nbCalls' = nbCalls + 1
    /\ hiPolls' = 0
    /\ UNCHANGED <<txn, hw, line, locals, result, dbg, build, filled, seen, hist>>

Preamble1 == CallNextBit("rt_pre1", "rt_pre2")
Preamble2Alt == CallNextBit("rt_pre2", "rt_bucket")
Preamble2 == CallNextBit("rt_pre2", "rt_forinit")

\* for(int counter=0; ...
ForInit ==
    /\ pc = "rt_forinit"
    /\ counter' = 0
    /\ pc' = "rt_for"
    /\ UNCHANGED <<ret, txn, hw, line, bits, state, bucket, tries, result, dbg, build, ghost, hist>>

\* ... counter < BIT_TRANSITIONS; ...
ForTest ==
    /\ pc = "rt_for"
    /\ pc' = IF counter < BIT_TRANSITIONS THEN "rt_call" ELSE "rt_result"
    /\ UNCHANGED <<ret, txn, hw, line, locals, tries, result, dbg, build, ghost, hist>>

LoopCall == CallNextBit("rt_call", "rt_bucket")

SetBucketAlt ==
    /\ pc = "rt_bucket"
    /\ bucket' = BucketOf(try_count) % U8
    /\ pc' = "rt_fold"
    /\ UNCHANGED <<ret, txn, hw, line, bits, state, counter, tries, result, dbg, build, ghost, hist>>

\* bucket = counter >> 3
SetBucket ==
    /\ pc = "rt_bucket"
    /\ bucket' = BucketOf(counter) % U8
    /\ pc' = "rt_fold"
    /\ UNCHANGED <<ret, txn, hw, line, bits, state, counter, tries, result, dbg, build, ghost, hist>>

ToInt16(v) == IF v >= U16 \div 2 THEN v - U16 ELSE v

\* bits[bucket] = (bits[bucket] << 1) | state.  bits has 5 elements; a store
\* to bits[5] lands on whatever the build placed behind the array.
Fold ==
    /\ pc = "rt_fold"
    /\ IF bucket < NBUCKETS
       THEN /\ bits' = [bits EXCEPT ![bucket] = ShiftIn(bits[bucket], state)]
            /\ filled' = [filled EXCEPT ![bucket] = filled[bucket] + 1]
            /\ UNCHANGED <<state, bucket, counter, hist>>
       ELSE /\ UNCHANGED <<bits, filled, hist>>
            /\ CASE bits5 = "state" ->
                      /\ state' = ShiftIn(state, state)
                      /\ UNCHANGED <<bucket, counter, hist>>
                 [] bits5 = "bucket" ->
                      /\ bucket' = ShiftIn(bucket, state)
                      /\ UNCHANGED <<state, counter, hist>>
                 [] bits5 = "counterLo" ->
                      /\ counter' = ToInt16(((counter \div U8) * U8) + ShiftIn((counter % U8), state))
                      /\ UNCHANGED <<state, bucket, hist>>
                 [] bits5 = "counterHi" ->
                      /\ counter' = ToInt16((ShiftIn(counter \div U8, state) * U8) + (counter % U8))
                      /\ UNCHANGED <<state, bucket, hist>>
                 [] OTHER -> UNCHANGED <<state, bucket, counter, hist>>
    /\ pc' = "rt_inc"
    /\ UNCHANGED <<ret, txn, hw, line, tries, result, dbg, build, nbCalls, seen, hiPolls, hist>>

\* counter++
ForInc ==
    /\ pc = "rt_inc"
    /\ counter' = counter + 1
    /\ pc' = "rt_for"
    /\ UNCHANGED <<ret, txn, hw, line, bits, state, bucket, tries, result, dbg, build, ghost, hist>>

WriteResultAlt ==
    /\ pc = "rt_result"
    /\ result' = IF ChecksumOf(bits) = 1
                 THEN [humidity |-> Word(bits[0], bits[1]),
                       temperature |-> Word(bits[2], bits[3]),
                       checksum |-> 1]
                 ELSE [humidity |-> 0, temperature |-> 0, checksum |-> 0]
    /\ pc' = "rt_debug"
    /\ UNCHANGED <<ret, txn, hw, line, locals, tries, dbg, build, ghost, hist>>

\* result->humidity = ...; result->temperature = ...; result->checksum = ...
WriteResult ==
    /\ pc = "rt_result"
    /\ result' = [humidity |-> Word(bits[0], bits[1]),
                  temperature |-> Word(bits[2], bits[3]),
                  checksum |-> ChecksumOf(bits)]
    /\ pc' = "rt_debug"
    /\ UNCHANGED <<ret, txn, hw, line, locals, tries, dbg, build, ghost, hist>>

\* print_debug(result): prints tries_b[0..42] and the result, changes nothing
PrintDebug ==
    /\ pc = "rt_debug"
    /\ pc' = "rt_sei"
    /\ UNCHANGED <<ret, txn, hw, line, locals, tries, result, dbg, build, ghost, hist>>

\* sei(); return to main's loop.  The locals die with the frame.
Sei ==
    /\ pc = "rt_sei"
    /\ ints' = TRUE
    /\ txn' = txn + 1
    /\ pc' = "main_loop"
    /\ bits' = ZeroBits
    /\ state' = 0
    /\ bucket' = 0
    /\ counter' = 0
    /\ prevPolls' = polls
    /\ prevSent' = sent
    /\ prevResult' = result
    /\ UNCHANGED <<ret, ddr, port, line, tries, result, dbg, build, ghost, polls, sent>>

\* --------------------------------------------------------------- next_bit
\* One more poll of a line that reads high.
Elapse(c) == IF c = Forever THEN Forever ELSE c - 1

PollLowReadsLowAlt ==
    /\ pc = "nb_low"
    /\ cur = 0
    /\ pc' = "nb_high"
    /\ UNCHANGED <<ret, txn, hw, line, locals, tries, result, dbg, build, ghost, hist>>

\* while(read_pin() == 0) { } : the line is low and stays low for this poll.
PollLowReadsLow ==
    /\ pc = "nb_low"
    /\ cur = 0
    /\ UNCHANGED vars

\* while(read_pin() == 0) { } : the poll reads high, because the next pulse
\* begins or because the line never went low after the previous sample.
PollLowReadsHigh ==
    /\ pc = "nb_low"
    /\ IF cur = 0
       THEN /\ wave # <<>>
            /\ cur' = Head(wave)
            /\ wave' = Tail(wave)
       ELSE /\ cur' = Elapse(cur)
            /\ UNCHANGED wave
    /\ pc' = "nb_high"
    /\ UNCHANGED <<ret, txn, hw, locals, tries, result, dbg, build, ghost, hist>>

\* The count of high polls is kept up to one past the cap.
CountPoll(n) == IF n > TRIES_CAP THEN n ELSE n + 1

\* while(read_pin() == 1) { if(tries++ == 255) break; }
PollHighReadsHighAlt ==
    /\ pc = "nb_high"
    /\ cur # 0
    /\ cur' = Elapse(cur)
    /\ tries' = IncTries(tries)
    /\ hiPolls' = CountPoll(hiPolls)
    /\ pc' = "nb_high"
    /\ UNCHANGED <<ret, txn, hw, wave, locals, result, dbg, build, nbCalls, filled, seen, hist>>

PollHighReadsHigh ==
    /\ pc = "nb_high"
    /\ cur # 0
    /\ cur' = Elapse(cur)
    /\ tries' = IncTries(tries)
    /\ hiPolls' = CountPoll(hiPolls)
    /\ pc' = IF tries = TRIES_CAP THEN "nb_classify" ELSE "nb_high"
    /\ UNCHANGED <<ret, txn, hw, wave, locals, result, dbg, build, nbCalls, filled, seen, hist>>

\* while(read_pin() == 1) : the pulse is over
PollHighReadsLow ==
    /\ pc = "nb_high"
    /\ cur = 0
    /\ pc' = "nb_classify"
    /\ UNCHANGED <<ret, txn, hw, line, locals, tries, result, dbg, build, ghost, hist>>

\* *state = (tries > LONG_PULSE_LENGTH) ? 1 : 0
ClassifyPulse ==
    /\ pc = "nb_classify"
    /\ state' = Classify(tries)
    /\ seen' = Append(seen, Classify(tries))
    /\ polls' = Append(polls, hiPolls)
    /\ pc' = "nb_debug"
    /\ UNCHANGED <<ret, txn, hw, line, bits, bucket, counter, tries, result, dbg, build,
                   nbCalls, filled, hiPolls, sent, prevPolls, prevSent, prevResult>>

\* tries_b[try_count] = tries; try_count++;  tries_b has 43 elements; a store
\* to tries_b[43] lands on whatever the build placed behind the array.
RecordTries ==
    /\ pc = "nb_debug"
    /\ IF try_count < TRIES_B_LEN
       THEN /\ tries_b' = [tries_b EXCEPT ![try_count] = tries]
            /\ try_count' = (try_count + 1) % U8
       ELSE /\ UNCHANGED tries_b
            /\ try_count' = IF try_count = TRIES_B_LEN /\ tries43 = "try_count"
                            THEN (tries + 1) % U8
                            ELSE (try_count + 1) % U8
    /\ pc' = ret
    /\ ret' = "none"
    /\ tries' = 0
    /\ hiPolls' = 0
    /\ UNCHANGED <<txn, hw, line, locals, result, build, nbCalls, filled, seen, hist>>

Next ==
    \/ MainLoop
    \/ SetOutput \/ PinLow \/ Delay \/ Cli \/ PinHigh \/ SetInput \/ InitLocals
    \/ Preamble1 \/ Preamble2
    \/ ForInit \/ ForTest \/ LoopCall \/ SetBucket \/ Fold \/ ForInc
    \/ WriteResult \/ PrintDebug \/ Sei
    \/ PollLowReadsLow \/ PollLowReadsHigh
    \/ PollHighReadsHigh \/ PollHighReadsLow
    \/ ClassifyPulse \/ RecordTries

Spec == Init /\ [][Next]_vars

\* The program never stops running; a low-phase wait on a line that still
\* has a pulse to come eventually sees that pulse.
FairSpec == Spec /\ WF_vars(Next) /\ WF_vars(PollLowReadsHigh)

\* ------------------------------------------------------------------ phases
InNextBit == pc \in {"nb_low", "nb_high", "nb_classify", "nb_debug"}

\* The phase of the transaction the program position belongs to.
Phase ==
    CASE pc \in {"main_loop", "rt_out"} -> "Idle"
      [] pc \in {"rt_low", "rt_delay", "rt_cli", "rt_high"} -> "Driving"
      [] pc = "rt_in" -> "Releasing"
      [] pc \in {"rt_init", "rt_pre1", "rt_pre2"} -> "ReadingPreamble"
      [] InNextBit /\ ret \in {"rt_pre2", "rt_forinit"} -> "ReadingPreamble"
      [] pc \in {"rt_forinit", "rt_for", "rt_call", "rt_bucket", "rt_fold", "rt_inc"} -> "ReadingData"
      [] InNextBit /\ ret = "rt_bucket" -> "ReadingData"
      [] OTHER -> "Complete"

NextPhase(p) ==
    CASE p = "Idle" -> "Driving"
      [] p = "Driving" -> "Releasing"
      [] p = "Releasing" -> "ReadingPreamble"
      [] p = "ReadingPreamble" -> "ReadingData"
      [] p = "ReadingData" -> "Complete"
      [] OTHER -> "Idle"

Min(a, b) == IF a < b THEN a ELSE b

\* The big-endian value of a sequence of 8 bits.
BigEndian(b) ==
    b[1] * 128 + b[2] * 64 + b[3] * 32 + b[4] * 16 + b[5] * 8 + b[6] * 4 + b[7] * 2 + b[8]

\* ------------------------------------------------------------------ claims

\* C1: in every completed read_therm transaction next_bit has been called
\* exactly 42 times: 2 preamble samples and 40 data samples.
C1_Exactly42Samples ==
    Phase = "Complete" => (nbCalls = 42 /\ Len(seen) = 2 + 40)

\* C2: the validity flag is 1 if and only if the sum of the four data
\* buckets modulo 256 equals the checksum bucket, and 0 otherwise.
C2_ChecksumMod256 ==
    pc = "rt_debug" =>
        /\ result.checksum \in {0, 1}
        /\ (result.checksum = 1) <=> ((bits[0] + bits[1] + bits[2] + bits[3]) % 256 = bits[4])

\* C3: at completion bucket k is the big-endian 8-bit integer formed by the
\* data bits 8k..8k+7 (the bits produced after the 2 preamble samples), in
\* arrival order.
C3_BucketsBigEndian ==
    Phase = "Complete" =>
        \A k \in 0..4 : bits[k] = BigEndian(SubSeq(seen, 2 + 8 * k + 1, 2 + 8 * k + 8))

C3_Witness ==
    /\ Phase = "Complete"
    /\ bits = (0 :> 2 @@ 1 :> 140 @@ 2 :> 1 @@ 3 :> 1 @@ 4 :> 143)

\* C4: every bucket index written by the data loop is in 0..4, and at
\* completion each of the 5 buckets has received exactly 8 bits.
C4_BucketIndexInRange ==
    /\ pc = "rt_fold" => bucket \in 0..4
    /\ Phase = "Complete" => \A k \in 0..4 : filled[k] = 8

\* C5: the bit produced by next_bit is 1 if the count is strictly greater
\* than 28 and 0 otherwise; 28 gives 0 and 29 gives 1.
C5_ClassifyThreshold ==
    pc = "nb_debug" =>
        /\ state \in {0, 1}
        /\ tries >= 29 => state = 1
        /\ tries <= 28 => state = 0

C5_Witness ==
    /\ pc = "nb_debug"
    /\ tries = 29
    /\ state = 1
    /\ try_count \in 1..(TRIES_B_LEN - 1)
    /\ tries_b[try_count - 1] = 28
    /\ seen[Len(seen) - 1] = 0

\* C6: the high-phase loop exits no later than when the cap is reached and
\* the count of a pulse read high on n consecutive polls is min(n, 255).
C6_CountIsMinOfPollsAndCap ==
    pc \in {"nb_classify", "nb_debug"} =>
        /\ hiPolls <= 256
        /\ tries = Min(hiPolls, 255)

\* C7: unless a low-phase wait is left on a line that stays low forever,
\* every started transaction returns, with the result written and the
\* interrupts enabled again.
LineStuckLow == Phase \notin {"Idle", "Driving", "Releasing"} /\ cur = 0 /\ wave = <<>>

C7_Terminates ==
    (pc = "rt_out") ~>
        \/ (pc = "main_loop" /\ txn > 0 /\ ints /\ prevPolls = polls /\ prevResult = result)
        \/ (pc = "nb_low" /\ LineStuckLow)

C7_Witness ==
    /\ pc = "main_loop"
    /\ txn = 1
    /\ ints
    /\ cur = Forever
    /\ tries_b[TRIES_B_LEN - 1] = 0
    /\ tries_b[TRIES_B_LEN - 2] > LONG_PULSE_LENGTH

\* C8: once the line is low forever while a sample is still to be started
\* (or is waiting for its pulse), the transaction never completes: the
\* program reaches the low-phase wait and stays in it.
MoreSamplesToCome ==
    \/ pc = "nb_low"
    \/ Phase = "ReadingPreamble"
    \/ /\ Phase = "ReadingData"
       /\ \/ nbCalls < 2 + 41
          \/ bits5 \notin {"counterLo", "counterHi"} /\ nbCalls < 2 + BIT_TRANSITIONS
          \/ pc \in {"rt_for", "rt_call"} /\ counter < BIT_TRANSITIONS
          \/ pc = "rt_inc" /\ counter + 1 < BIT_TRANSITIONS

StuckWithSamplesToCome == LineStuckLow /\ MoreSamplesToCome

C8_StuckLowNeverCompletes ==
    /\ [][StuckWithSamplesToCome =>
            (StuckWithSamplesToCome' /\ Phase' \in {"ReadingPreamble", "ReadingData"})]_vars
    /\ [][(LineStuckLow /\ pc = "nb_low") => pc' = "nb_low"]_vars
    /\ [](StuckWithSamplesToCome => <>(pc = "nb_low"))

C8_Witness ==
    /\ pc = "nb_low"
    /\ LineStuckLow
    /\ nbCalls = 2 + BIT_TRANSITIONS - 1

\* C9: interrupts are disabled at every poll of the line, stay disabled
\* until the result has been assembled, and are enabled when read_therm
\* has returned.
C9_InterruptsBracketSampling ==
    /\ pc \in {"nb_low", "nb_high"} => ~ints
    /\ (Phase \in {"ReadingPreamble", "ReadingData"} \/ pc \in {"rt_result", "rt_debug", "rt_sei"})
            => ~ints
    /\ (pc = "main_loop" /\ txn > 0) => ints

C9_Witness ==
    /\ pc = "nb_high"
    /\ txn = 1
    /\ ~ints

\* C10: the phases follow each other in the order Idle, Driving, Releasing,
\* ReadingPreamble, ReadingData, Complete, Idle; the line is driven low in
\* output mode during the delay and driven high when released; the line is
\* in output mode only during Driving and Releasing and in input mode at
\* every poll.
C10_PhaseOrder ==
    /\ [][Phase' = Phase \/ Phase' = NextPhase(Phase)]_vars
    /\ [](pc \in {"rt_delay", "rt_cli", "rt_high"} => (ddr = "out" /\ port = 0))
    /\ [](pc = "rt_in" => (ddr = "out" /\ port = 1))
    /\ [](ddr = "out" => Phase \in {"Driving", "Releasing"})
    /\ [](pc \in {"nb_low", "nb_high"} => ddr = "in")

C10_Witness ==
    /\ Phase = "Complete"
    /\ txn = 1
    /\ ddr = "in"

\* C11: a checksum mismatch is only data: the transaction still completes
\* and returns once, humidity and temperature are written from the buckets
\* as always, and the validity flag is 0.
ChecksumMismatch == (bits[0] + bits[1] + bits[2] + bits[3]) % 256 # bits[4]

C11_MismatchIsData ==
    /\ [](pc \in {"rt_debug", "rt_sei"} /\ ChecksumMismatch =>
            /\ result.checksum = 0
            /\ result.humidity = bits[0] * 256 + bits[1]
            /\ result.temperature = bits[2] * 256 + bits[3])
    /\ [][Phase = "Complete" =>
            \/ Phase' = "Complete" /\ txn' = txn
            \/ pc' = "main_loop" /\ txn' = txn + 1]_vars

C11_Witness ==
    /\ pc = "rt_sei"
    /\ ChecksumMismatch
    /\ result = [temperature |-> 257, humidity |-> 652, checksum |-> 0]

\* C12: a transaction that observes the same sequence of pulse lengths as
\* the transaction before it produces the same humidity, temperature and
\* validity flag.
C12_SamePulsesSameResult ==
    (pc = "rt_debug" /\ txn >= 1 /\ polls = prevPolls) => result = prevResult

C12_Witness ==
    /\ pc = "rt_debug"
    /\ txn >= 1
    /\ polls = prevPolls
    /\ result.humidity = 400
    /\ try_count # Len(polls)

\* C13: at completion humidity is bucket0 * 256 + bucket1 and temperature is
\* bucket2 * 256 + bucket3, both within 0..65535.
C13_WordsFromBuckets ==
    pc = "rt_debug" =>
        /\ result.humidity = bits[0] * 256 + bits[1]
        /\ result.temperature = bits[2] * 256 + bits[3]
        /\ result.humidity \in 0..65535
        /\ result.temperature \in 0..65535

C13_Witness ==
    /\ pc = "rt_debug"
    /\ bits[0] = 2 /\ bits[1] = 140 /\ bits[2] = 1 /\ bits[3] = 1
    /\ result.humidity = 652
    /\ result.temperature = 257

\* C14 (as stated): two transactions whose waveforms differ only in the
\* lengths of the two preamble pulses end with the same result.
C14_IndependentOfPreamblePulses ==
    ( /\ pc = "rt_debug" /\ txn >= 1
      /\ Len(sent) >= 2 /\ Len(prevSent) >= 2
      /\ Tail(Tail(sent)) = Tail(Tail(prevSent)) ) => result = prevResult

\* C14 (amended): the first 2 samples are discarded: the buckets are still 0
\* when the first data sample starts, and the final buckets and result are
\* determined by the bits of the samples after the first two.
DataByte(k) == BigEndian(SubSeq(seen, 2 + 8 * k + 1, 2 + 8 * k + 8))

C14_PreambleSamplesDiscarded ==
    /\ (pc = "rt_call" /\ counter = 0) => (nbCalls = 2 /\ bits = ZeroBits)
    /\ pc = "rt_debug" =>
        /\ \A k \in 0..4 : bits[k] = DataByte(k)
        /\ result.humidity = DataByte(0) * 256 + DataByte(1)
        /\ result.temperature = DataByte(2) * 256 + DataByte(3)
        /\ result.checksum =
              IF DataByte(0) + DataByte(1) + DataByte(2) + DataByte(3) = DataByte(4)
              THEN 1 ELSE 0

C14_Witness ==
    /\ pc = "rt_debug"
    /\ polls[1] = 255 /\ seen[1] = 1
    /\ polls[2] = 256 /\ seen[2] = 0
    /\ result = [temperature |-> 15, humidity |-> 18 * 256 + 52, checksum |-> 1]

\* C15: the caller's result is not written before the loop over the data
\* bits has finished: until then, also while blocked in a low-phase wait,
\* it holds the values it had when read_therm last returned.
C15_ResultUntouchedUntilDone ==
    pc \notin {"rt_debug", "rt_sei"} => result = prevResult

C15_Witness ==
    /\ pc = "nb_low"
    /\ LineStuckLow
    /\ txn = 1
    /\ result.humidity = 652
    /\ nbCalls > 2

\* C16: the bit is monotonic in the pulse length: if a sample read high on
\* n polls gave 1, every sample read high on more than n polls gives 1.
C16_BitMonotonic ==
    \A i, j \in 1..Len(polls) :
        (polls[i] < polls[j] /\ seen[i] = 1) => seen[j] = 1

\* C17: every write of a count into the debug buffer uses an index in 0..42.
C17_DebugIndexInBuffer ==
    pc = "nb_debug" => try_count \in 0..42

====
